---- MODULE Spec2Model ----
(***************************************************************************)
(* State-machine model of docker/thingsboard_installer.py: the menu loop,  *)
(* the full-installation pipeline, the command runner's fail-fast policy,  *)
(* the descriptor file and its backup, the firewall rules and the          *)
(* notification mail.                                                      *)
(*                                                                         *)
(* The process is single-threaded.  pc names the function the process is   *)
(* in ("menu" is the input() of main_menu, "exited" a terminated process), *)
(* ip the statement of that function that runs next.  Everything the       *)
(* process does to the outside world since the last menu selection is      *)
(* appended to trace.                                                      *)
(***************************************************************************)
EXTENDS Naturals, Sequences, FiniteSets

VARIABLES
    pc,          \* function being executed, "menu" or "exited"
    ip,          \* index of the next statement inside that function
    op,          \* branch of main_menu being served: "none", "full", "verify", "firewall", "notify", "invalid", "exit"
    step,        \* index into full_installation of the call in progress (0 outside it)
    exit_code,   \* <<>> while the process runs, else <<exit status>>
    fs,          \* the working directory: file name |-> content, for the files that exist
    http_port,   \* locals of full_installation (kept until the next assignment)
    mqtt_port,
    coap_port,
    fw_args,     \* arguments of the configure_firewall call in progress
    mail_args,   \* arguments of the send_notification call in progress
    pre_fs,      \* the working directory as it was when the current full installation began
    backed_up,   \* <<content>> moved by the most recent rename of backup_existing_compose_file, else <<>>
    trace        \* external effects since the last menu selection

vars == <<pc, ip, op, step, exit_code, fs, http_port, mqtt_port,
          coap_port, fw_args, mail_args, pre_fs, backed_up, trace>>

----------------------------------------------------------------------------
(* Input domains.                                                          *)

\* Lines typed at the menu prompt: the five selections and some others.
Choices == {"1", "2", "3", "4", "5", "6", "", " 1"}

\* Lines typed at the three port prompts; "" is a bare Enter.
HttpInputs == {"", "9090"}

MqttInputs == {"", "11883"}

CoapInputs == {"", "15683"}

\* Stage of the SMTP session that raises, "none" when the mail goes out.
SmtpStages == {"none", "connect", "starttls", "login", "sendmail"}

\* No exit status yet: the process is running.
NoExit == <<>>

----------------------------------------------------------------------------------------------------------------------------------------------
(* Files.  The working directory maps the names of the files that exist    *)
(* to their content.  A content is a sequence of lines; a line is the      *)
(* sequence of its literal and substituted pieces.                         *)

ComposeFile == "docker-compose.yml"

BackupFile == "docker-compose.yml.bak"

\* A descriptor left by the operator before the first run, and an older backup.
OrigContent == << <<"version: '3'">>, <<"services: {}">> >>

OldBakContent == << <<"version: '2'">> >>

\* os.path.exists(name)
Exists(dir, name) == name \in DOMAIN dir

\* os.rename(src, dst) on POSIX: dst is replaced if it exists.
Rename(dir, src, dst) ==
    [n \in (DOMAIN dir \ {src}) \cup {dst} |-> IF n = dst THEN dir[src] ELSE dir[n]]

\* with open(name, "w") as f: f.write(content)
WriteFile(dir, name, content) ==
    [n \in DOMAIN dir \cup {name} |-> IF n = name THEN content ELSE dir[n]]

\* Directories the script can be started in.
InitialDirs ==
    { [n \in names |-> IF n = ComposeFile THEN OrigContent ELSE OldBakContent] :
        names \in SUBSET {ComposeFile, BackupFile} }

----------
(* Pure functions of the script.                                           *)

\* Variant: the typed line is used as it is.
OrDefault_NoDefault(typed, default) == typed

\* input(...) or default
OrDefault(typed, default) == IF typed = "" THEN default ELSE typed

get_user_config(h, m, c) ==
    << OrDefault(h, "8080"), OrDefault(m, "1883"), OrDefault(c, "5683") >>

\* The f-string compose_file_content, split at its newlines.
compose_file_content(h, m, c) == <<
    <<"">>,
    <<"version: '3.5'">>,
    <<"services:">>,
    <<"  tb:">>,
    <<"    image: thingsboard/tb-postgres:latest">>,
    <<"    container_name: tb">>,
    <<"    ports:">>,
    <<"      - \"", h, ":8080\"">>,
    <<"      - \"", m, ":1883\"">>,
    <<"      - \"", c, ":5683/udp\"">>,
    <<"    environment:">>,
    <<"      TB_QUEUE_TYPE: kafka">>,
    <<"      SPRING_DATASOURCE_URL: jdbc:postgresql://postgres:5432/thingsboard">>,
    <<"      SPRING_DATASOURCE_USERNAME: tb_user">>,
    <<"      SPRING_DATASOURCE_PASSWORD: tb_password">>,
    <<"    depends_on:">>,
    <<"      - postgres">>,
    <<"">>,
    <<"  postgres:">>,
    <<"    image: postgres:12">>,
    <<"    container_name: postgres">>,
    <<"    environment:">>,
    <<"      POSTGRES_DB: thingsboard">>,
    <<"      POSTGRES_USER: tb_user">>,
    <<"      POSTGRES_PASSWORD: tb_password">>,
    <<"    volumes:">>,
    <<"      - ./data/db:/var/lib/postgresql/data">>,
    <<"">> >>

\* Variant: the two statuses are exchanged.
NotificationStatus_Inverted(success) == IF success THEN "FAILURE" ELSE "SUCCESS"

\* status = "SUCCESS" if success else "FAILURE"
NotificationStatus(success) == IF success THEN "SUCCESS" ELSE "FAILURE"

\* Variant: the session is not guarded, every exception leaves the function.
NotificationRaises_Uncaught(stage) == stage # "none"

\* Does an exception raised at this stage of the SMTP session leave
\* send_notification?  The whole session is inside try/except Exception.
NotificationRaises(stage) == FALSE

\* Variant: the descriptor is copied to the backup and stays in place.
backup_Copy(dir) ==
    IF Exists(dir, ComposeFile) THEN WriteFile(dir, BackupFile, dir[ComposeFile]) ELSE dir

\* Variant: an existing backup is never replaced.
backup_KeepFirst(dir) ==
    IF Exists(dir, ComposeFile) /\ ~Exists(dir, BackupFile)
    THEN Rename(dir, ComposeFile, BackupFile) ELSE dir

\* if os.path.exists(...): os.rename(...); the working directory afterwards.
backup_existing_compose_file(dir) ==
    IF Exists(dir, ComposeFile) THEN Rename(dir, ComposeFile, BackupFile) ELSE dir

----------------------------------------------------------------------------
(* The commands each function hands to run_command, in order.              *)

\* getpass.getuser()
CurrentUser == "ubuntu"

UpdateCommands == << "sudo apt update && sudo apt upgrade -y" >>

DockerCommands == <<
    "sudo apt install -y docker.io",
    "sudo systemctl start docker && sudo systemctl enable docker",
    "sudo groupadd docker || true",
    "sudo usermod -aG docker " \o CurrentUser >>

\* Variant: the firewall is enabled before the rules are added.
FirewallCommands_EnableFirst(h, m, c) == <<
    "sudo ufw enable",
    "sudo ufw allow " \o h,
    "sudo ufw allow " \o m,
    "sudo ufw allow " \o c >>

FirewallCommands(h, m, c) == <<
    "sudo ufw allow " \o h,
    "sudo ufw allow " \o m,
    "sudo ufw allow " \o c,
    "sudo ufw enable" >>

DeployCommand == "docker-compose up -d"

VerifyCommand == "docker-compose ps"

\* Exit statuses the shell can give a command: "... || true" is always 0.
CanFail(cmd) == cmd # "sudo groupadd docker || true"

Outcomes(cmd) == IF CanFail(cmd) THEN {TRUE, FALSE} ELSE {TRUE}

\* Variant: the firewall is configured before the stack is deployed.
full_installation_FirewallBeforeDeploy == <<
    "pre_install_check",
    "update_and_upgrade_system",
    "install_docker",
    "backup_existing_compose_file",
    "get_user_config",
    "configure_firewall",
    "install_thingsboard_docker_compose",
    "verify_installation",
    "send_notification" >>

\* The body of full_installation: the functions it calls, in order.
full_installation == <<
    "pre_install_check",
    "update_and_upgrade_system",
    "install_docker",
    "backup_existing_compose_file",
    "get_user_config",
    "install_thingsboard_docker_compose",
    "configure_firewall",
    "verify_installation",
    "send_notification" >>

\* Variant: the menu reuses the ports of the last full installation.
MenuFirewallArgs_LastChosen ==
    IF http_port = "" THEN << "8080", "1883", "5683" >>
    ELSE << http_port, mqtt_port, coap_port >>

\* Arguments main_menu passes to configure_firewall and send_notification.
MenuFirewallArgs == << "8080", "1883", "5683" >>

MenuMailArgs == [email |-> "admin@example.com", success |-> TRUE]

\* Arguments full_installation passes to send_notification.
FullMailArgs == [email |-> "admin@example.com", success |-> TRUE]

\* The if/elif chain of main_menu: the function a selection dispatches to.
Dispatch(choice) ==
    CASE choice = "1" -> "full"
      [] choice = "2" -> "verify"
      [] choice = "3" -> "firewall"
      [] choice = "4" -> "notify"
      [] choice = "5" -> "exit"
      [] OTHER        -> "invalid"

----------------------------------------------------------------------------
(* Events of the trace.                                                    *)

Event(fn, kind, arg, ok) == [fn |-> fn, kind |-> kind, arg |-> arg, ok |-> ok]

----------------------------------------------------------------------------
(* Control flow.                                                           *)

\* Where a function returns to: the next call of full_installation, or the
\* top of the while loop of main_menu.
ReturnPc == IF op = "full" /\ step < Len(full_installation)
            THEN full_installation[step + 1] ELSE "menu"

ReturnStep == IF op = "full" /\ step < Len(full_installation) THEN step + 1 ELSE 0

\* Arguments are bound when full_installation makes the call.
Return ==
    /\ pc' = ReturnPc
    /\ ip' = 1
    /\ step' = ReturnStep
    /\ fw_args' = IF ReturnPc = "configure_firewall"
                  THEN <<http_port, mqtt_port, coap_port>> ELSE fw_args
    /\ mail_args' = IF ReturnPc = "send_notification" THEN FullMailArgs ELSE mail_args
    /\ exit_code' = exit_code

\* exit(1) in run_command, or an exception nobody catches
Die ==
    /\ pc' = "exited"
    /\ exit_code' = <<1>>
    /\ UNCHANGED <<ip, step, fw_args, mail_args>>

\* Variant: a non-zero exit status is logged and the run goes on.
RunCommandThen_IgnoreFailure(ok, last) ==
    IF last THEN Return
    ELSE /\ ip' = ip + 1
         /\ UNCHANGED <<pc, step, exit_code, fw_args, mail_args>>

\* run_command(cmds[ip]) inside function fn, then the statement after it.
\* ok: the command's exit status was 0.
RunCommandThen(ok, last) ==
    IF ok
    THEN IF last THEN Return
         ELSE /\ ip' = ip + 1
              /\ UNCHANGED <<pc, step, exit_code, fw_args, mail_args>>
    ELSE Die

run_command(fn, cmds) ==
    \E ok \in Outcomes(cmds[ip]) :
        /\ trace' = Append(trace, Event(fn, "cmd", cmds[ip], ok))
        /\ RunCommandThen(ok, ip = Len(cmds))

----------------------------------------------------------------------------
(* Actions.                                                                *)

Init ==
    /\ pc = "menu"
    /\ ip = 1
    /\ op = "none"
    /\ step = 0
    /\ exit_code = NoExit
    /\ fs \in InitialDirs
    /\ http_port = ""
    /\ mqtt_port = ""
    /\ coap_port = ""
    /\ fw_args = <<"", "", "">>
    /\ mail_args = MenuMailArgs
    /\ pre_fs = fs
    /\ backed_up = <<>>
    /\ trace = <<>>

\* One iteration of the while loop up to the call it dispatches to.
main_menu ==
    /\ pc = "menu"
    /\ \E choice \in Choices :
        LET d == Dispatch(choice) IN
        /\ op' = d
        /\ trace' = <<>>
        /\ ip' = 1
        /\ pc' = CASE d = "full"     -> full_installation[1]
                   [] d = "verify"   -> "verify_installation"
                   [] d = "firewall" -> "configure_firewall"
                   [] d = "notify"   -> "send_notification"
                   [] d = "exit"     -> "exited"
                   [] OTHER          -> "menu"
        /\ step' = IF d = "full" THEN 1 ELSE 0
        /\ exit_code' = IF d = "exit" THEN <<0>> ELSE exit_code
        /\ fw_args' = IF d = "firewall" THEN MenuFirewallArgs ELSE fw_args
        /\ mail_args' = IF d = "notify" THEN MenuMailArgs ELSE mail_args
        /\ pre_fs' = IF d = "full" THEN fs ELSE pre_fs
    /\ UNCHANGED <<fs, http_port, mqtt_port, coap_port, backed_up>>

\* The docker probe does not go through run_command: its status is only logged.
pre_install_check ==
    /\ pc = "pre_install_check"
    /\ \E docker_found \in BOOLEAN :
        trace' = Append(trace, Event(pc, "probe", "docker --version", docker_found))
    /\ Return
    /\ UNCHANGED <<op, fs, http_port, mqtt_port, coap_port, pre_fs, backed_up>>

update_and_upgrade_system ==
    /\ pc = "update_and_upgrade_system"
    /\ run_command(pc, UpdateCommands)
    /\ UNCHANGED <<op, fs, http_port, mqtt_port, coap_port, pre_fs, backed_up>>

install_docker ==
    /\ pc = "install_docker"
    /\ run_command(pc, DockerCommands)
    /\ UNCHANGED <<op, fs, http_port, mqtt_port, coap_port, pre_fs, backed_up>>

backup_step ==
    /\ pc = "backup_existing_compose_file"
    /\ fs' = backup_existing_compose_file(fs)
    /\ backed_up' = IF Exists(fs, ComposeFile) THEN << fs[ComposeFile] >> ELSE backed_up
    /\ trace' = Append(trace, Event(pc, "backup", ComposeFile, Exists(fs, ComposeFile)))
    /\ Return
    /\ UNCHANGED <<op, http_port, mqtt_port, coap_port, pre_fs>>

config_step ==
    /\ pc = "get_user_config"
    /\ \E h \in HttpInputs, m \in MqttInputs, c \in CoapInputs :
        LET cfg == get_user_config(h, m, c) IN
        /\ http_port' = cfg[1]
        /\ mqtt_port' = cfg[2]
        /\ coap_port' = cfg[3]
        /\ trace' = trace \o << Event(pc, "input", h, TRUE),
                                Event(pc, "input", m, TRUE),
                                Event(pc, "input", c, TRUE) >>
        \* the next call, install_thingsboard_docker_compose, takes the new values
        /\ pc' = ReturnPc
        /\ ip' = 1
        /\ step' = ReturnStep
    /\ UNCHANGED <<op, exit_code, fs, fw_args, mail_args, pre_fs, backed_up>>

\* Statement 1 writes the descriptor, statement 2 brings the stack up.
install_thingsboard_docker_compose ==
    /\ pc = "install_thingsboard_docker_compose"
    /\ \/ /\ ip = 1
          /\ fs' = WriteFile(fs, ComposeFile,
                              compose_file_content(http_port, mqtt_port, coap_port))
          /\ trace' = Append(trace, Event(pc, "write", ComposeFile, TRUE))
          /\ ip' = 2
          /\ UNCHANGED <<pc, step, exit_code, fw_args, mail_args>>
       \/ /\ ip = 2
          /\ fs' = fs
          /\ \E ok \in Outcomes(DeployCommand) :
              /\ trace' = Append(trace, Event(pc, "cmd", DeployCommand, ok))
              /\ RunCommandThen(ok, TRUE)
    /\ UNCHANGED <<op, http_port, mqtt_port, coap_port, pre_fs, backed_up>>

configure_firewall ==
    /\ pc = "configure_firewall"
    /\ run_command(pc, FirewallCommands(fw_args[1], fw_args[2], fw_args[3]))
    /\ UNCHANGED <<op, fs, http_port, mqtt_port, coap_port, pre_fs, backed_up>>

verify_installation ==
    /\ pc = "verify_installation"
    /\ run_command(pc, << VerifyCommand >>)
    /\ UNCHANGED <<op, fs, http_port, mqtt_port, coap_port, pre_fs, backed_up>>

\* The SMTP session either delivers the mail or raises at one of its stages.
send_notification ==
    /\ pc = "send_notification"
    /\ \E stage \in SmtpStages :
        /\ trace' = Append(trace, Event(pc, "mail",
                                        NotificationStatus(mail_args.success),
                                        stage = "none"))
        /\ IF NotificationRaises(stage) THEN Die ELSE Return
    /\ UNCHANGED <<op, fs, http_port, mqtt_port, coap_port, pre_fs, backed_up>>

\* The script is started again in the same directory: the files stay, the
\* process state is new.
main ==
    /\ pc = "exited"
    /\ pc' = "menu"
    /\ ip' = 1
    /\ op' = "none"
    /\ step' = 0
    /\ exit_code' = NoExit
    /\ http_port' = ""
    /\ mqtt_port' = ""
    /\ coap_port' = ""
    /\ fw_args' = <<"", "", "">>
    /\ mail_args' = MenuMailArgs
    /\ pre_fs' = fs
    /\ trace' = <<>>
    /\ UNCHANGED <<fs, backed_up>>

Next ==
    \/ main_menu
    \/ pre_install_check
    \/ update_and_upgrade_system
    \/ install_docker
    \/ backup_step
    \/ config_step
    \/ install_thingsboard_docker_compose
    \/ configure_firewall
    \/ verify_installation
    \/ send_notification
    \/ main

Spec == Init /\ [][Next]_vars

----------------------------------------------------------------------------
(* Reading the trace.                                                      *)

OfKind(t, kind) == SelectSeq(t, LAMBDA e : e.kind = kind)

OfFn(t, fn) == SelectSeq(t, LAMBDA e : e.fn = fn)

\* The functions that acted, in order, each maximal block counted once.
RECURSIVE Blocks(_)
Blocks(t) ==
    IF t = <<>> THEN <<>>
    ELSE IF Len(t) > 1 /\ t[1].fn = t[2].fn THEN Blocks(Tail(t))
    ELSE <<t[1].fn>> \o Blocks(Tail(t))

\* Index of the first failed command of the trace, 0 if there is none.
FailedAt == IF \E i \in 1..Len(trace) : trace[i].kind = "cmd" /\ ~trace[i].ok
            THEN CHOOSE i \in 1..Len(trace) :
                    /\ trace[i].kind = "cmd" /\ ~trace[i].ok
                    /\ \A j \in 1..(i - 1) : ~(trace[j].kind = "cmd" /\ ~trace[j].ok)
            ELSE 0

\* A full installation has returned to the menu.
FullCompleted == op = "full" /\ pc = "menu"

\* A full installation was ended by exit(1).
FullFailed == op = "full" /\ pc = "exited"

----------------------------------------------------------------------------
(* C1: in a full installation, a command run through run_command that      *)
(* exits non-zero is the last thing the run does: nothing is appended to   *)
(* the trace after it (no command, no descriptor write, no firewall rule,  *)
(* no mail) and the process has terminated with exit code 1; the only     *)
(* step left is a new launch of the script, which finds the files as the   *)
(* failure left them.                                                      *)

C1_Halted ==
    \A i \in 1..Len(trace) :
        (op = "full" /\ trace[i].kind = "cmd" /\ ~trace[i].ok) =>
            /\ i = Len(trace)
            /\ pc = "exited"
            /\ exit_code = <<1>>
            /\ OfKind(trace, "mail") = <<>>

C1_FailureHaltsPipeline ==
    /\ [] C1_Halted
    /\ [][ (op = "full" /\ FailedAt > 0) => (op' = "none" /\ fs' = fs) ]_vars

\* A full installation died on its deploy command, after the descriptor was written.
C1_Witness ==
    /\ FullFailed
    /\ exit_code = <<1>>
    /\ Len(trace) > 0
    /\ trace[Len(trace)].arg = DeployCommand
    /\ ~trace[Len(trace)].ok

----------------------------------------------------------------------------
(* C2: a full installation in which no command fails runs preflight,       *)
(* system update, Docker install, backup, port prompts, descriptor write   *)
(* and deploy, firewall, verify and notify(success), each exactly once and *)
(* in this order; a step acts only after the one before it has completed   *)
(* with every command succeeding, and the notification comes last.         *)

PipelineOrder == <<
    "pre_install_check", "update_and_upgrade_system", "install_docker",
    "backup_existing_compose_file", "get_user_config",
    "install_thingsboard_docker_compose", "configure_firewall",
    "verify_installation", "send_notification" >>

\* Number of external effects of each step when it runs to completion.
EffectsOf(fn) ==
    CASE fn = "install_docker" -> 4
      [] fn = "get_user_config" -> 3
      [] fn = "install_thingsboard_docker_compose" -> 2
      [] fn = "configure_firewall" -> 4
      [] OTHER -> 1

StepCompleted(fn) ==
    /\ Len(OfFn(trace, fn)) = EffectsOf(fn)
    /\ \A i \in 1..Len(trace) : (trace[i].fn = fn /\ trace[i].kind = "cmd") => trace[i].ok

C2_PipelineOrder ==
    op = "full" =>
        /\ \E k \in 0..Len(PipelineOrder) :
            /\ Blocks(trace) = SubSeq(PipelineOrder, 1, k)
            /\ \A j \in 1..(k - 1) : StepCompleted(PipelineOrder[j])
        /\ \A i \in 1..Len(trace) :
            trace[i].kind = "mail" =>
                /\ i = Len(trace)
                /\ trace[i].arg = "SUCCESS"
                /\ \A j \in 1..(Len(PipelineOrder) - 1) : StepCompleted(PipelineOrder[j])
        /\ pc = "menu" =>
            /\ Blocks(trace) = PipelineOrder
            /\ \A j \in 1..Len(PipelineOrder) : StepCompleted(PipelineOrder[j])

C2_Witness ==
    /\ FullCompleted
    /\ Blocks(trace) = PipelineOrder
    /\ trace[Len(trace)].kind = "mail"
    /\ trace[Len(trace)].ok

----------------------------------------------------------------------------
(* C3: configure_firewall issues the allow rule for the HTTP port, then    *)
(* for the MQTT port, then for the CoAP port, then one enable, each once;  *)
(* a command is issued only after all the ones before it succeeded, so the *)
(* enable never precedes an allow rule and is not issued if one failed.    *)

FirewallReturned ==
    \/ op = "firewall" /\ pc = "menu"
    \/ op = "full" /\ pc \in {"verify_installation", "send_notification", "menu"}
    \/ op = "full" /\ pc = "exited" /\ OfFn(trace, "verify_installation") # <<>>

C3_FirewallOrder ==
    LET issued   == OfFn(trace, "configure_firewall")
        expected == << "sudo ufw allow " \o fw_args[1],
                       "sudo ufw allow " \o fw_args[2],
                       "sudo ufw allow " \o fw_args[3],
                       "sudo ufw enable" >>
    IN  /\ Len(issued) <= 4
        /\ \A i \in 1..Len(issued) :
            /\ issued[i].kind = "cmd"
            /\ issued[i].arg = expected[i]
            /\ i < Len(issued) => issued[i].ok
        /\ FirewallReturned => (Len(issued) = 4 /\ issued[4].ok)

\* The firewall was enabled after three allow rules for typed ports.
C3_Witness ==
    LET issued == OfFn(trace, "configure_firewall")
    IN  /\ Len(issued) = 4
        /\ issued[1].arg = "sudo ufw allow 9090"
        /\ issued[3].arg = "sudo ufw allow 15683"
        /\ issued[4].arg = "sudo ufw enable"
        /\ issued[4].ok

----------------------------------------------------------------------------
(* C4: in a full installation that found a descriptor, once the backup     *)
(* step has run docker-compose.yml.bak holds the original content; until   *)
(* the deploy step writes, nothing exists at docker-compose.yml, and from  *)
(* the write on the freshly rendered descriptor is there while the backup  *)
(* still holds the original.  If there was no descriptor, the backup step  *)
(* leaves the directory as it found it.                                    *)

BackupStepRan == OfFn(trace, "backup_existing_compose_file") # <<>>

DescriptorWritten == OfKind(trace, "write") # <<>>

C4_BackupPreservesOriginal ==
    (op = "full" /\ BackupStepRan) =>
        IF Exists(pre_fs, ComposeFile)
        THEN /\ Exists(fs, BackupFile)
             /\ fs[BackupFile] = pre_fs[ComposeFile]
             /\ ~DescriptorWritten => ~Exists(fs, ComposeFile)
             /\ DescriptorWritten =>
                    /\ Exists(fs, ComposeFile)
                    /\ fs[ComposeFile] = compose_file_content(http_port, mqtt_port, coap_port)
        ELSE /\ ~DescriptorWritten => fs = pre_fs
             /\ DescriptorWritten => fs = WriteFile(pre_fs, ComposeFile, fs[ComposeFile])

\* The operator's descriptor is in the backup and a different, fresh one is in place.
C4_Witness ==
    /\ op = "full"
    /\ DescriptorWritten
    /\ Exists(pre_fs, ComposeFile)
    /\ pre_fs[ComposeFile] = OrigContent
    /\ Exists(fs, BackupFile)
    /\ fs[BackupFile] = OrigContent
    /\ Exists(fs, ComposeFile)
    /\ fs[ComposeFile] # OrigContent

----------------------------------------------------------------------------
(* C5: in a full installation the three host ports are the typed lines,    *)
(* or 8080, 1883, 5683 where the line was empty, and so never empty; the   *)
(* written descriptor maps exactly these three host ports to 8080, 1883    *)
(* and 5683/udp and has no other port mapping; the firewall allow rules    *)
(* are for the host ports of the descriptor's mappings, in the same order. *)

\* The items of the descriptor's ports list: <<host port, rest of the item>>.
RECURSIVE PortMappings(_)
PortMappings(content) ==
    IF content = <<>> THEN <<>>
    ELSE IF Head(content)[1] = "      - \""
         THEN << <<Head(content)[2], Head(content)[3]>> >> \o PortMappings(Tail(content))
         ELSE PortMappings(Tail(content))

C5_PortsConsistent ==
    LET typed  == OfKind(trace, "input")
        issued == OfFn(trace, "configure_firewall")
    IN  (op = "full" /\ typed # <<>>) =>
            LET hp == IF typed[1].arg = "" THEN "8080" ELSE typed[1].arg
                mp == IF typed[2].arg = "" THEN "1883" ELSE typed[2].arg
                cp == IF typed[3].arg = "" THEN "5683" ELSE typed[3].arg
            IN  /\ Len(typed) = 3
                /\ <<http_port, mqtt_port, coap_port>> = <<hp, mp, cp>>
                /\ http_port # "" /\ mqtt_port # "" /\ coap_port # ""
                /\ DescriptorWritten =>
                        PortMappings(fs[ComposeFile]) =
                            << <<hp, ":8080\"">>, <<mp, ":1883\"">>, <<cp, ":5683/udp\"">> >>
                /\ \A i \in 1..Len(issued) :
                        i <= 3 => issued[i].arg =
                                    "sudo ufw allow " \o PortMappings(fs[ComposeFile])[i][1]

\* HTTP typed, MQTT and CoAP left empty, and all three rules issued.
C5_Witness ==
    LET typed  == OfKind(trace, "input")
        issued == OfFn(trace, "configure_firewall")
    IN  /\ op = "full"
        /\ Len(typed) = 3
        /\ typed[1].arg = "9090" /\ typed[2].arg = "" /\ typed[3].arg = ""
        /\ Len(issued) >= 3
        /\ issued[1].arg = "sudo ufw allow 9090"
        /\ issued[2].arg = "sudo ufw allow 1883"
        /\ issued[3].arg = "sudo ufw allow 5683"

----------------------------------------------------------------------------
(* C6: a completed full installation has prompted for a password, then     *)
(* for the three ports, then for the environment tier.                     *)

C6_PromptsPasswordPortsTier ==
    FullCompleted =>
        \E i, j, k \in 1..Len(trace) :
            /\ i < j /\ j < k
            /\ trace[i].fn = "create_thingsboard_user"
            /\ trace[j].fn = "get_user_config"
            /\ trace[k].fn = "configure_environment"

----------------------------------------------------------------------------
(* C7 as stated: every full installation that has ended, completed or      *)
(* failed on a command, has sent one notification, SUCCESS when it         *)
(* completed and FAILURE when it failed.                                   *)

C7_OneMailPerEndedRun ==
    LET mails == OfKind(trace, "mail")
    IN  /\ FullCompleted => (Len(mails) = 1 /\ mails[1].arg = "SUCCESS")
        /\ FullFailed => (Len(mails) = 1 /\ mails[1].arg = "FAILURE")

(* C7 amended: a full installation that completes has called               *)
(* send_notification exactly once, with status SUCCESS, as its last step;  *)
(* a full installation that has not completed, and one that failed on a    *)
(* command, has sent nothing; no operation sends a FAILURE notification.   *)

C7_MailOnlyOnCompletion ==
    LET mails == OfKind(trace, "mail")
    IN  /\ FullCompleted => (Len(mails) = 1 /\ mails[1].arg = "SUCCESS")
        /\ (op = "full" /\ pc # "menu") => mails = <<>>
        /\ \A i \in 1..Len(mails) : mails[i].arg = "SUCCESS"

\* One run completed with its mail delivered ...
C7_Witness ==
    /\ FullCompleted
    /\ Len(OfKind(trace, "mail")) = 1
    /\ trace[Len(trace)].ok

----------------------------------------------------------------------------
(* C8: a notification whose SMTP session fails is the last effect of its   *)
(* operation and leaves the process running at the menu prompt; when it    *)
(* ends a full installation, every step of that installation completed.    *)

C8_MailFailureSwallowed ==
    \A i \in 1..Len(trace) :
        (trace[i].kind = "mail" /\ ~trace[i].ok) =>
            /\ i = Len(trace)
            /\ pc = "menu"
            /\ exit_code = NoExit
            /\ op = "full" =>
                /\ Blocks(trace) = PipelineOrder
                /\ \A j \in 1..(Len(PipelineOrder) - 1) : StepCompleted(PipelineOrder[j])

\* A full installation completed although its mail was not delivered.
C8_Witness ==
    /\ FullCompleted
    /\ trace # <<>>
    /\ trace[Len(trace)].kind = "mail"
    /\ ~trace[Len(trace)].ok

----------------------------------------------------------------------------
(* C9: the menu dispatches on the typed line alone.  An invalid line does  *)
(* nothing and prompts again; "2" runs the verify command; "3" runs the    *)
(* firewall commands for 8080, 1883, 5683 whatever an earlier full         *)
(* installation chose; "4" sends one SUCCESS notification to               *)
(* admin@example.com; "1" starts the pipeline; each returns to the prompt. *)
(* The process has exited exactly when "5" was typed (exit code 0) or a    *)
(* command failed (exit code 1).  Only a full installation touches files.  *)

C9_MenuState ==
    /\ (pc = "exited") <=> (exit_code # NoExit)
    /\ pc = "exited" =>
        \/ op = "exit" /\ exit_code = <<0>> /\ trace = <<>>
        \/ exit_code = <<1>> /\ FailedAt > 0 /\ FailedAt = Len(trace)
    /\ op = "exit" => pc = "exited"
    /\ op = "invalid" => (pc = "menu" /\ trace = <<>>)
    /\ op = "verify" =>
        /\ pc \in {"verify_installation", "menu", "exited"}
        /\ Len(trace) <= 1
        /\ \A i \in 1..Len(trace) : trace[i].fn = "verify_installation" /\ trace[i].arg = "docker-compose ps"
        /\ pc = "menu" => (Len(trace) = 1 /\ trace[1].ok)
    /\ op = "firewall" =>
        /\ pc \in {"configure_firewall", "menu", "exited"}
        /\ Len(trace) <= 4
        /\ \A i \in 1..Len(trace) :
            /\ trace[i].fn = "configure_firewall"
            /\ trace[i].arg = << "sudo ufw allow 8080", "sudo ufw allow 1883",
                                 "sudo ufw allow 5683", "sudo ufw enable" >>[i]
        /\ pc = "menu" => (Len(trace) = 4 /\ trace[4].ok)
    /\ op = "notify" =>
        /\ pc \in {"send_notification", "menu"}
        /\ mail_args.email = "admin@example.com"
        /\ Len(trace) <= 1
        /\ \A i \in 1..Len(trace) : trace[i].kind = "mail" /\ trace[i].arg = "SUCCESS"
        /\ pc = "menu" => Len(trace) = 1
    /\ op = "full" => (trace # <<>> => trace[1].fn = "pre_install_check")

C9_MenuDispatch ==
    /\ [] C9_MenuState
    /\ [][ op' \in {"invalid", "verify", "firewall", "notify", "exit"} => fs' = fs ]_vars

\* The menu's firewall option ran to the end after a full installation on port 9090.
C9_Witness ==
    /\ op = "firewall"
    /\ pc = "menu"
    /\ Len(trace) = 4
    /\ http_port = "9090"
    /\ trace[1].arg = "sudo ufw allow 8080"

----------------------------------------------------------------------------
(* C10: the directory never holds a backup other than                      *)
(* docker-compose.yml.bak, and once a backup step has renamed a descriptor *)
(* that file holds the content most recently renamed.  A backup step that  *)
(* finds both files replaces the backup: the descriptor's content is in    *)
(* the backup, nothing is at the descriptor's path, and the earlier        *)
(* backup's content, if different, is in no file.  A run that fails after  *)
(* its backup step leaves the backup and the descriptor it wrote: the      *)
(* original is not put back.                                               *)

C10_State ==
    /\ DOMAIN fs \subseteq {ComposeFile, BackupFile}
    /\ backed_up # <<>> => (Exists(fs, BackupFile) /\ fs[BackupFile] = backed_up[1])
    /\ (FullFailed /\ BackupStepRan /\ Exists(pre_fs, ComposeFile)) =>
            /\ fs[BackupFile] = pre_fs[ComposeFile]
            /\ Exists(fs, ComposeFile)
            /\ fs[ComposeFile] = compose_file_content(http_port, mqtt_port, coap_port)

C10_SingleLatestBackup ==
    /\ [] C10_State
    /\ [][ ( /\ pc = "backup_existing_compose_file"
             /\ Exists(fs, ComposeFile)
             /\ Exists(fs, BackupFile) ) =>
                /\ DOMAIN fs' = {BackupFile}
                /\ fs'[BackupFile] = fs[ComposeFile]
                /\ fs[BackupFile] # fs[ComposeFile] =>
                        \A n \in DOMAIN fs' : fs'[n] # fs[BackupFile] ]_vars

\* A run that found both files, replaced the old backup and then failed.
C10_Witness ==
    /\ FullFailed
    /\ BackupStepRan
    /\ Exists(pre_fs, ComposeFile)
    /\ Exists(pre_fs, BackupFile)
    /\ pre_fs[BackupFile] # pre_fs[ComposeFile]
    /\ Exists(fs, BackupFile)
    /\ fs[BackupFile] = pre_fs[ComposeFile]
    /\ backed_up = << pre_fs[ComposeFile] >>

====
